---- MODULE Spec2Model ----
(***************************************************************************)
(* A model of the Result container of xnd-js-result (src/src/result.ts).   *)
(*                                                                         *)
(* The state is a heap of Result instances (the private fields of each     *)
(* instance, with counters of how often each slot was read and how often   *)
(* its deferred producer ran), the promises the library returned, and an   *)
(* observation of the last call: what it returned or threw and which       *)
(* callbacks it ran.                                                       *)
(* JavaScript values are strings: "undefined", "null", plain payloads and  *)
(* three functions; a Result or a promise is referred to by its index.     *)
(*                                                                         *)
(* The specifications share the state and Init: Spec runs the factories,   *)
(* the chain methods and Result.resolve; SpecMatch runs Result.match on a  *)
(* Result and on a promise of one; SpecAccess runs the guards and value,   *)
(* defaultValue, or and throwIfNotOk; SpecFrame runs every transformation  *)
(* of a Result; SpecRetry runs the batch processor of the examples         *)
(* (src/src/__examples__/data-processing.examples.ts), whose locals are    *)
(* the variable processor.                                                 *)
(***************************************************************************)
EXTENDS Integers, Sequences, FiniteSets

VARIABLES heap, promises, last, processor

vars == <<heap, promises, last, processor>>

\* ------------------------------------------------------------------ bounds
\* Result instances and pending computations alive at once.
MaxObjects == 2
\* Accesses of one slot that holds a deferred producer.
MaxReads == 2
\* Items passed to processWithRetry.
MaxItems == 2
\* The largest maxRetries passed to processWithRetry.
MaxRetries == 3

\* ------------------------------------------------------------------ values
\* Result.OK, the payload of Result.ok() called without an argument.
OK == "ok"

\* The three functions a caller hands over as deferred producers or payloads.
Functions == {"fnVal", "fnNull", "fnThrow"}

Plain == {"v1", "v2"}

\* Every value a caller passes, returns from a callback, throws or settles a
\* promise with.
Values == {"undefined", "null"} \cup Plain \cup Functions

\* typeof x === 'function'
IsFunction(x) == x \in Functions

\* What calling a function does: it returns val or throws val.
Invoke(f) ==
  CASE f = "fnVal" -> [thrown |-> FALSE, val |-> "v1"]
    [] f = "fnNull" -> [thrown |-> FALSE, val |-> "null"]
    [] f = "fnThrow" -> [thrown |-> TRUE, val |-> "v2"]

\* What a callback or mutator does in one call: it returns val or throws val.
Outcomes == [thrown : BOOLEAN, val : {"undefined", "null", "v2", "fnVal"}]

\* x ?? null
Fold(x) == IF x \in {"undefined", "null"} THEN "null" ELSE x

\* ----------------------------------------------------------- the instance
\* new Result(dataOrFn, errorOrFn = null): the default applies to undefined.
\* dataReads/errorReads count the accesses of a slot holding a function and
\* dataCalls/errorCalls the runs of that function.
NewResult(dataOrFn, errorOrFn) ==
  [dataOrFn |-> dataOrFn,
   errorOrFn |-> IF errorOrFn = "undefined" THEN "null" ELSE errorOrFn,
   dataValue |-> "undefined", errorValue |-> "undefined",
   dataEvaluated |-> FALSE, errorEvaluated |-> FALSE,
   dataReads |-> 0, dataCalls |-> 0, errorReads |-> 0, errorCalls |-> 0]

\* Only the accesses of a slot that holds a function are counted.
Counted(slot) == IF IsFunction(slot) THEN 1 ELSE 0

\* get data that never marks the slot as evaluated.
GetDataUncached(h, r) ==
  LET o == h[r] IN
  IF o.dataOrFn = "null" THEN [h |-> h, thrown |-> FALSE, val |-> "null"]
  ELSE IF IsFunction(o.dataOrFn)
    THEN LET c == Invoke(o.dataOrFn) IN
         [h |-> [h EXCEPT ![r].dataReads = @ + 1, ![r].dataCalls = @ + 1,
                          ![r].dataValue = c.val],
          thrown |-> c.thrown, val |-> IF c.thrown THEN c.val ELSE Fold(c.val)]
  ELSE [h |-> [h EXCEPT ![r].dataValue = o.dataOrFn],
        thrown |-> FALSE, val |-> Fold(o.dataOrFn)]

\* get data that returns what the slot holds or produces as it is, without
\* ?? null.
GetDataUnfolded(h, r) ==
  LET o == h[r] IN
  IF o.dataOrFn = "null" THEN [h |-> h, thrown |-> FALSE, val |-> "null"]
  ELSE IF o.dataEvaluated
    THEN [h |-> [h EXCEPT ![r].dataReads = @ + Counted(o.dataOrFn)],
          thrown |-> FALSE, val |-> o.dataValue]
  ELSE IF IsFunction(o.dataOrFn)
    THEN LET c == Invoke(o.dataOrFn) IN
         IF c.thrown
           THEN [h |-> [h EXCEPT ![r].dataReads = @ + 1, ![r].dataCalls = @ + 1],
                 thrown |-> TRUE, val |-> c.val]
           ELSE [h |-> [h EXCEPT ![r].dataReads = @ + 1, ![r].dataCalls = @ + 1,
                                 ![r].dataValue = c.val, ![r].dataEvaluated = TRUE],
                 thrown |-> FALSE, val |-> c.val]
  ELSE [h |-> [h EXCEPT ![r].dataValue = o.dataOrFn, ![r].dataEvaluated = TRUE],
        thrown |-> FALSE, val |-> o.dataOrFn]

\* get data: h is the heap, r the instance; the outcome carries the heap after.
GetData(h, r) ==
  LET o == h[r] IN
  IF o.dataOrFn = "null" THEN [h |-> h, thrown |-> FALSE, val |-> "null"]
  ELSE IF o.dataEvaluated
    THEN [h |-> [h EXCEPT ![r].dataReads = @ + Counted(o.dataOrFn)],
          thrown |-> FALSE, val |-> Fold(o.dataValue)]
  ELSE IF IsFunction(o.dataOrFn)
    THEN LET c == Invoke(o.dataOrFn) IN
         IF c.thrown
           THEN [h |-> [h EXCEPT ![r].dataReads = @ + 1, ![r].dataCalls = @ + 1],
                 thrown |-> TRUE, val |-> c.val]
           ELSE [h |-> [h EXCEPT ![r].dataReads = @ + 1, ![r].dataCalls = @ + 1,
                                 ![r].dataValue = c.val, ![r].dataEvaluated = TRUE],
                 thrown |-> FALSE, val |-> Fold(c.val)]
  ELSE [h |-> [h EXCEPT ![r].dataValue = o.dataOrFn, ![r].dataEvaluated = TRUE],
        thrown |-> FALSE, val |-> Fold(o.dataOrFn)]

\* get error
GetError(h, r) ==
  LET o == h[r] IN
  IF o.errorOrFn = "null" THEN [h |-> h, thrown |-> FALSE, val |-> "null"]
  ELSE IF o.errorEvaluated
    THEN [h |-> [h EXCEPT ![r].errorReads = @ + Counted(o.errorOrFn)],
          thrown |-> FALSE, val |-> Fold(o.errorValue)]
  ELSE IF IsFunction(o.errorOrFn)
    THEN LET c == Invoke(o.errorOrFn) IN
         IF c.thrown
           THEN [h |-> [h EXCEPT ![r].errorReads = @ + 1, ![r].errorCalls = @ + 1],
                 thrown |-> TRUE, val |-> c.val]
           ELSE [h |-> [h EXCEPT ![r].errorReads = @ + 1, ![r].errorCalls = @ + 1,
                                 ![r].errorValue = c.val, ![r].errorEvaluated = TRUE],
                 thrown |-> FALSE, val |-> Fold(c.val)]
  ELSE [h |-> [h EXCEPT ![r].errorValue = o.errorOrFn, ![r].errorEvaluated = TRUE],
        thrown |-> FALSE, val |-> Fold(o.errorOrFn)]

\* Result.isOk(result) for a Result instance: result.error === null.
\* is is the boolean returned, meaningless when thrown.
IsOk(h, r) ==
  LET e == GetError(h, r) IN
  [h |-> e.h, thrown |-> e.thrown, val |-> e.val, is |-> ~e.thrown /\ e.val = "null"]

\* Result.notOk(result) for a Result instance: result.error !== null.
NotOk(h, r) ==
  LET e == GetError(h, r) IN
  [h |-> e.h, thrown |-> e.thrown, val |-> e.val, is |-> ~e.thrown /\ e.val # "null"]

\* ------------------------------------------------------ static factories
\* One entry of a call's log: a caller-supplied function ran with arg.
Ran(fn, arg) == [fn |-> fn, arg |-> arg]

\* An outcome of a call: the heap after it, whether it threw and what (val),
\* the Result it returned (ref, 0 when none) and the callbacks it ran (log).
Returned(h, ref, log) ==
  [h |-> h, thrown |-> FALSE, val |-> "undefined", ref |-> ref, log |-> log]

Threw(h, x, log) ==
  [h |-> h, thrown |-> TRUE, val |-> x, ref |-> 0, log |-> log]

\* new Result(...) stored as the next instance.
Construct(h, dataOrFn, errorOrFn, log) ==
  Returned(Append(h, NewResult(dataOrFn, errorOrFn)), Len(h) + 1, log)

\* Result.ok(dataOrFn = Result.OK): new Result(dataOrFn)
StaticOk(h, dataOrFn, log) ==
  Construct(h, IF dataOrFn = "undefined" THEN OK ELSE dataOrFn, "undefined", log)

\* Result.not(errorOrFn): new Result(null, errorOrFn)
StaticNot(h, errorOrFn, log) == Construct(h, "null", errorOrFn, log)

\* Result.tryCatch(callback); cb is what the callback does.
TryCatch(h, cb) ==
  IF cb.thrown THEN Construct(h, "null", cb.val, <<Ran("callback", "undefined")>>)
  ELSE Construct(h, cb.val, "null", <<Ran("callback", "undefined")>>)

\* Result.from(value, condition, error). cond.isFn tells a predicate from a
\* boolean and cond.holds is the boolean, or what the predicate returns.
Conditions == [isFn : BOOLEAN, holds : BOOLEAN]

From(h, value, cond, error) ==
  LET v == IF IsFunction(value) THEN Invoke(value)
           ELSE [thrown |-> FALSE, val |-> value]
      log1 == IF IsFunction(value) THEN <<Ran("value", "undefined")>> ELSE <<>>
      log2 == IF cond.isFn THEN Append(log1, Ran("condition", v.val)) ELSE log1
      e == IF IsFunction(error) THEN Invoke(error)
           ELSE [thrown |-> FALSE, val |-> error]
      log3 == IF IsFunction(error) THEN Append(log2, Ran("error", "undefined")) ELSE log2
  IN IF v.thrown THEN Threw(h, v.val, log1)
     ELSE IF cond.holds THEN StaticOk(h, v.val, log2)
     ELSE IF e.thrown THEN Threw(h, e.val, log3)
     ELSE StaticNot(h, e.val, log3)

\* ------------------------------------------------------ instance methods
\* ok that runs the callback whatever the state of the receiver.
MethodOkOnAnyState(h, r, cb) ==
  LET d == GetData(h, r) IN
  IF d.thrown THEN StaticNot(d.h, d.val, <<>>)
  ELSE IF cb.thrown THEN StaticNot(d.h, cb.val, <<Ran("callback", d.val)>>)
  ELSE IF cb.val = "undefined"
    THEN StaticOk(d.h, d.val, <<Ran("callback", d.val)>>)
  ELSE StaticOk(d.h, cb.val, <<Ran("callback", d.val)>>)

\* ok that keeps the original value when the callback returns null as well:
\* result ?? this.data.
MethodOkNullish(h, r, cb) ==
  LET c == IsOk(h, r) IN
  IF c.thrown THEN StaticNot(c.h, c.val, <<>>)
  ELSE IF ~c.is THEN Returned(c.h, r, <<>>)
  ELSE LET d == GetData(c.h, r) IN
       IF d.thrown THEN StaticNot(d.h, d.val, <<>>)
       ELSE IF cb.thrown THEN StaticNot(d.h, cb.val, <<Ran("callback", d.val)>>)
       ELSE IF cb.val \in {"undefined", "null"}
         THEN StaticOk(d.h, d.val, <<Ran("callback", d.val)>>)
       ELSE StaticOk(d.h, cb.val, <<Ran("callback", d.val)>>)

\* Result.prototype.ok(callback); cb is what the callback does when called.
MethodOk(h, r, cb) ==
  LET c == IsOk(h, r) IN
  IF c.thrown THEN StaticNot(c.h, c.val, <<>>)
  ELSE IF ~c.is THEN Returned(c.h, r, <<>>)
  ELSE LET d == GetData(c.h, r) IN
       IF d.thrown THEN StaticNot(d.h, d.val, <<>>)
       ELSE IF cb.thrown THEN StaticNot(d.h, cb.val, <<Ran("callback", d.val)>>)
       ELSE IF cb.val = "undefined"
         THEN LET d2 == GetData(d.h, r) IN
              StaticOk(d2.h, d2.val, <<Ran("callback", d.val)>>)
       ELSE StaticOk(d.h, cb.val, <<Ran("callback", d.val)>>)

\* not that wraps what the callback returns without the fallback to the
\* original error.
MethodNotNoFallback(h, r, cb) ==
  LET c == NotOk(h, r) IN
  IF c.thrown THEN StaticNot(c.h, c.val, <<>>)
  ELSE IF ~c.is THEN Returned(c.h, r, <<>>)
  ELSE LET e == GetError(c.h, r) IN
       IF cb.thrown THEN StaticNot(e.h, cb.val, <<Ran("callback", e.val)>>)
       ELSE StaticNot(e.h, cb.val, <<Ran("callback", e.val)>>)

\* not that runs the callback whatever the state of the receiver.
MethodNotOnAnyState(h, r, cb) ==
  LET e == GetError(h, r) IN
  IF e.thrown THEN StaticNot(e.h, e.val, <<>>)
  ELSE IF cb.thrown THEN StaticNot(e.h, cb.val, <<Ran("callback", e.val)>>)
  ELSE IF cb.val \in {"undefined", "null"}
    THEN StaticNot(e.h, e.val, <<Ran("callback", e.val)>>)
  ELSE StaticNot(e.h, cb.val, <<Ran("callback", e.val)>>)

\* Result.prototype.not(callback)
MethodNot(h, r, cb) ==
  LET c == NotOk(h, r) IN
  IF c.thrown THEN StaticNot(c.h, c.val, <<>>)
  ELSE IF ~c.is THEN Returned(c.h, r, <<>>)
  ELSE LET e == GetError(c.h, r) IN
       IF cb.thrown THEN StaticNot(e.h, cb.val, <<Ran("callback", e.val)>>)
       ELSE IF cb.val \in {"undefined", "null"}
         THEN LET e2 == GetError(e.h, r) IN
              StaticNot(e2.h, e2.val, <<Ran("callback", e.val)>>)
       ELSE StaticNot(e.h, cb.val, <<Ran("callback", e.val)>>)

\* to that captures what the mutator throws, as ok does.
MethodToCapturing(h, r, cb) ==
  LET c == NotOk(h, r) IN
  IF c.thrown THEN Threw(c.h, c.val, <<>>)
  ELSE IF c.is THEN Returned(c.h, r, <<>>)
  ELSE LET d == GetData(c.h, r) IN
       IF d.thrown THEN Threw(d.h, d.val, <<>>)
       ELSE IF cb.thrown THEN StaticNot(d.h, cb.val, <<Ran("callback", d.val)>>)
       ELSE StaticOk(d.h, cb.val, <<Ran("callback", d.val)>>)

\* to that stores what the mutator returns in the receiver and returns the
\* receiver.
MethodToInPlace(h, r, cb) ==
  LET c == NotOk(h, r) IN
  IF c.thrown THEN Threw(c.h, c.val, <<>>)
  ELSE IF c.is THEN Returned(c.h, r, <<>>)
  ELSE LET d == GetData(c.h, r) IN
       IF d.thrown THEN Threw(d.h, d.val, <<>>)
       ELSE IF cb.thrown THEN Threw(d.h, cb.val, <<Ran("callback", d.val)>>)
       ELSE Returned([d.h EXCEPT ![r].dataOrFn = cb.val, ![r].dataEvaluated = FALSE],
                     r, <<Ran("callback", d.val)>>)

\* Result.prototype.to(mutator)
MethodTo(h, r, cb) ==
  LET c == NotOk(h, r) IN
  IF c.thrown THEN Threw(c.h, c.val, <<>>)
  ELSE IF c.is THEN Returned(c.h, r, <<>>)
  ELSE LET d == GetData(c.h, r) IN
       IF d.thrown THEN Threw(d.h, d.val, <<>>)
       ELSE IF cb.thrown THEN Threw(d.h, cb.val, <<Ran("callback", d.val)>>)
       ELSE StaticOk(d.h, cb.val, <<Ran("callback", d.val)>>)

\* A call that returned the plain value x.
Gave(h, x, log) ==
  [h |-> h, thrown |-> FALSE, val |-> x, ref |-> 0, log |-> log]

\* match without the return of the ok branch: after the ok handler the call
\* falls through to the not handler.
MatchHandlersFallThrough(h, r, ok, notH, hasNot) ==
  LET c == IsOk(h, r) IN
  IF c.thrown THEN Threw(c.h, c.val, <<>>)
  ELSE LET d == GetData(c.h, r)
           log1 == IF c.is /\ ~d.thrown THEN <<Ran("ok", d.val)>> ELSE <<>>
           h1 == IF c.is THEN d.h ELSE c.h
       IN IF c.is /\ d.thrown THEN Threw(d.h, d.val, <<>>)
          ELSE IF c.is /\ ok.thrown THEN Threw(h1, ok.val, log1)
          ELSE IF hasNot
            THEN LET e == GetError(h1, r) IN
                 IF notH.thrown THEN Threw(e.h, notH.val, Append(log1, Ran("not", e.val)))
                 ELSE Gave(e.h, notH.val, Append(log1, Ran("not", e.val)))
          ELSE Gave(h1, "null", log1)

\* Result.match(result, {ok, not}) on a Result instance. ok and notH are what
\* the handlers do when called; hasNot tells whether a not handler is given.
MatchHandlers(h, r, ok, notH, hasNot) ==
  LET c == IsOk(h, r) IN
  IF c.thrown THEN Threw(c.h, c.val, <<>>)
  ELSE IF c.is
    THEN LET d == GetData(c.h, r) IN
         IF d.thrown THEN Threw(d.h, d.val, <<>>)
         ELSE IF ok.thrown THEN Threw(d.h, ok.val, <<Ran("ok", d.val)>>)
         ELSE Gave(d.h, ok.val, <<Ran("ok", d.val)>>)
  ELSE IF hasNot
    THEN LET e == GetError(c.h, r) IN
         IF notH.thrown THEN Threw(e.h, notH.val, <<Ran("not", e.val)>>)
         ELSE Gave(e.h, notH.val, <<Ran("not", e.val)>>)
  ELSE Gave(c.h, "null", <<>>)

\* Result.NOT
NOT == "not"

\* The tags passed to the action-tag form of Result.match: the two markers
\* and two strings that are neither.
Tags == {OK, NOT, "v1", "v2"}

\* The message of the Error thrown for a tag that is not a marker.
InvalidMatchType(action) ==
  "The match type \"" \o action \o "\" is not valid!"

\* handleSuccess(handler, result) on a Result instance.
HandleSuccess(h, r, cb) ==
  LET c == IsOk(h, r) IN
  IF c.thrown THEN Threw(c.h, c.val, <<>>)
  ELSE IF ~c.is THEN Gave(c.h, "null", <<>>)
  ELSE LET d == GetData(c.h, r) IN
       IF d.thrown THEN Threw(d.h, d.val, <<>>)
       ELSE IF cb.thrown THEN Threw(d.h, cb.val, <<Ran("handler", d.val)>>)
       ELSE Gave(d.h, cb.val, <<Ran("handler", d.val)>>)

\* handleFailure that calls the handler whatever the state of the Result.
HandleFailureOnAnyState(h, r, cb) ==
  LET e == GetError(h, r) IN
  IF e.thrown THEN Threw(e.h, e.val, <<>>)
  ELSE IF cb.thrown THEN Threw(e.h, cb.val, <<Ran("handler", e.val)>>)
  ELSE Gave(e.h, cb.val, <<Ran("handler", e.val)>>)

\* handleFailure(handler, result) on a Result instance.
HandleFailure(h, r, cb) ==
  LET c == NotOk(h, r) IN
  IF c.thrown THEN Threw(c.h, c.val, <<>>)
  ELSE IF ~c.is THEN Gave(c.h, "null", <<>>)
  ELSE LET e == GetError(c.h, r) IN
       IF cb.thrown THEN Threw(e.h, cb.val, <<Ran("handler", e.val)>>)
       ELSE Gave(e.h, cb.val, <<Ran("handler", e.val)>>)

\* The switch of Result.match(action, result, handler) that takes an unknown
\* action for Result.OK.
MatchTagLenient(h, action, r, cb) ==
  IF action = NOT THEN HandleFailure(h, r, cb) ELSE HandleSuccess(h, r, cb)

\* Result.match(action, result, handler) on a Result instance.
MatchTag(h, action, r, cb) ==
  IF action = OK THEN HandleSuccess(h, r, cb)
  ELSE IF action = NOT THEN HandleFailure(h, r, cb)
  ELSE Threw(h, InvalidMatchType(action), <<>>)

\* !!result && result instanceof Result for a value that is no Result: the
\* conjunction is false whatever the value, falsy or not.
Truthy(x) == x \notin {"undefined", "null"}

GuardOfValue(x) == Truthy(x) /\ FALSE

\* value that runs the mutator whatever the state of the receiver.
MethodValueOnAnyState(h, r, m, hasMutator) ==
  LET d == GetData(h, r) IN
  IF d.thrown THEN Threw(d.h, d.val, <<>>)
  ELSE IF ~hasMutator THEN Gave(d.h, d.val, <<>>)
  ELSE IF m.thrown THEN Threw(d.h, m.val, <<Ran("mutator", d.val)>>)
  ELSE Gave(d.h, m.val, <<Ran("mutator", d.val)>>)

\* Result.prototype.value(mutator?); hasMutator tells whether one is given and
\* m is what it does when called.
MethodValue(h, r, m, hasMutator) ==
  LET c == IsOk(h, r) IN
  IF c.thrown THEN Threw(c.h, c.val, <<>>)
  ELSE LET d == GetData(c.h, r) IN
       IF d.thrown THEN Threw(d.h, d.val, <<>>)
       ELSE IF c.is /\ hasMutator
         THEN IF m.thrown THEN Threw(d.h, m.val, <<Ran("mutator", d.val)>>)
              ELSE Gave(d.h, m.val, <<Ran("mutator", d.val)>>)
       ELSE Gave(d.h, d.val, <<>>)

\* The fallbacks passed to defaultValue: a plain value, or a function and what
\* it does when called.
Fallbacks ==
  {[isFn |-> FALSE, thrown |-> FALSE, val |-> "v2"],
   [isFn |-> TRUE, thrown |-> FALSE, val |-> "v2"],
   [isFn |-> TRUE, thrown |-> TRUE, val |-> "v2"]}

\* getDefaultValue() inside defaultValue
GetDefaultValue(h, r, fb) ==
  IF ~fb.isFn THEN Gave(h, fb.val, <<>>)
  ELSE LET d == GetData(h, r) IN
       IF d.thrown THEN Threw(d.h, d.val, <<>>)
       ELSE IF fb.thrown THEN Threw(d.h, fb.val, <<Ran("value", d.val)>>)
       ELSE Gave(d.h, fb.val, <<Ran("value", d.val)>>)

\* defaultValue that returns the value of a success even when it is null.
MethodDefaultValueNoFold(h, r, fb) ==
  LET c == IsOk(h, r) IN
  IF c.thrown THEN Threw(c.h, c.val, <<>>)
  ELSE IF c.is
    THEN LET d == GetData(c.h, r) IN
         IF d.thrown THEN Threw(d.h, d.val, <<>>) ELSE Gave(d.h, d.val, <<>>)
  ELSE GetDefaultValue(c.h, r, fb)

\* Result.prototype.defaultValue(value)
MethodDefaultValue(h, r, fb) ==
  LET c == IsOk(h, r) IN
  IF c.thrown THEN Threw(c.h, c.val, <<>>)
  ELSE IF c.is
    THEN LET d == GetData(c.h, r) IN
         IF d.thrown THEN Threw(d.h, d.val, <<>>)
         ELSE IF d.val # "null" THEN Gave(d.h, d.val, <<>>)
         ELSE GetDefaultValue(d.h, r, fb)
  ELSE GetDefaultValue(c.h, r, fb)

\* or that gives the error of a failure without calling the callback.
MethodOrError(h, r, cb) ==
  LET c == IsOk(h, r) IN
  IF c.thrown THEN Threw(c.h, c.val, <<>>)
  ELSE IF c.is
    THEN LET d == GetData(c.h, r) IN
         IF d.thrown THEN Threw(d.h, d.val, <<>>) ELSE Gave(d.h, d.val, <<>>)
  ELSE LET e == GetError(c.h, r) IN Gave(e.h, e.val, <<>>)

\* Result.prototype.or(callback)
MethodOr(h, r, cb) ==
  LET c == IsOk(h, r) IN
  IF c.thrown THEN Threw(c.h, c.val, <<>>)
  ELSE IF c.is
    THEN LET d == GetData(c.h, r) IN
         IF d.thrown THEN Threw(d.h, d.val, <<>>) ELSE Gave(d.h, d.val, <<>>)
  ELSE LET e == GetError(c.h, r) IN
       IF cb.thrown THEN Threw(e.h, cb.val, <<Ran("callback", e.val)>>)
       ELSE Gave(e.h, cb.val, <<Ran("callback", e.val)>>)

\* throwIfNotOk that never throws.
MethodThrowIfNotOkSilent(h, r) ==
  LET c == NotOk(h, r) IN
  IF c.thrown THEN Threw(c.h, c.val, <<>>) ELSE Gave(c.h, "undefined", <<>>)

\* Result.prototype.throwIfNotOk()
MethodThrowIfNotOk(h, r) ==
  LET c == NotOk(h, r) IN
  IF c.thrown THEN Threw(c.h, c.val, <<>>)
  ELSE IF c.is THEN LET e == GetError(c.h, r) IN Threw(e.h, e.val, <<>>)
  ELSE Gave(c.h, "undefined", <<>>)

\* ------------------------------------------------------------- promises
\* A promise the caller passes in: pending, or settled with the plain value
\* val.
Pending == [state |-> "pending", val |-> "undefined"]

\* A promise the library returned: Result.resolve (kind "resolve"), called
\* through the entry point via, awaits the caller's promise awaited; once
\* fulfilled it carries the Result ref.
NewPromise(kind, via) ==
  [kind |-> kind, via |-> via, awaited |-> Pending, state |-> "pending", ref |-> 0]

Settled(p) == p.state # "pending"

\* A promise of a Result the caller passes to Result.match: pending,
\* fulfilled with the instance ref, or rejected with val.
PendingResult == [state |-> "pending", val |-> "undefined", ref |-> 0]

FulfilledWith(r) == [state |-> "fulfilled", val |-> "undefined", ref |-> r]

RejectedWith(x) == [state |-> "rejected", val |-> x, ref |-> 0]

\* The promise Result.match returns for a promise of a Result: the chain of
\* .then and .catch on awaited. via is the form of the call, action its tag
\* ("none" in the handler-object form), hasNot whether a not handler is
\* given. Once settled it carries the value it fulfilled or rejected with
\* (val), the handlers the chain ran (log) and what the handler run by the
\* .then stage (cb) and by the .catch stage (cb2) did.
NewMatch(via, action, hasNot) ==
  [kind |-> "match", via |-> via, awaited |-> PendingResult, state |-> "pending",
   ref |-> 0, action |-> action, hasNot |-> hasNot,
   val |-> "undefined", log |-> <<>>,
   cb |-> [thrown |-> FALSE, val |-> "undefined"],
   cb2 |-> [thrown |-> FALSE, val |-> "undefined"]]

\* The .then stage of the handler-object form on the awaited instance r.
MatchHandlersThen(h, r, ok) ==
  LET c == IsOk(h, r) IN
  IF c.thrown THEN Threw(c.h, c.val, <<>>)
  ELSE IF ~c.is THEN Gave(c.h, "null", <<>>)
  ELSE LET d == GetData(c.h, r) IN
       IF d.thrown THEN Threw(d.h, d.val, <<>>)
       ELSE IF ok.thrown THEN Threw(d.h, ok.val, <<Ran("ok", d.val)>>)
       ELSE Gave(d.h, ok.val, <<Ran("ok", d.val)>>)

\* .catch(reason => has ? cb(reason) : null) applied to the outcome t of the
\* stage before it; fn names the handler.
Caught(t, cb, fn, has) ==
  IF ~t.thrown THEN t
  ELSE IF ~has THEN Gave(t.h, "null", t.log)
  ELSE IF cb.thrown THEN Threw(t.h, cb.val, Append(t.log, Ran(fn, t.val)))
  ELSE Gave(t.h, cb.val, Append(t.log, Ran(fn, t.val)))

\* What the .then stage of the match promise p does once the awaited promise
\* aw has settled: a rejection skips the stage.
ThenStage(h, p, cb) ==
  LET aw == p.awaited IN
  IF aw.state = "rejected" THEN Threw(h, aw.val, <<>>)
  ELSE IF p.action = "none" THEN MatchHandlersThen(h, aw.ref, cb)
  ELSE IF p.action = OK THEN HandleSuccess(h, aw.ref, cb)
  ELSE HandleFailure(h, aw.ref, cb)

\* A chain whose handleSuccess ends with .catch(() => null).
CatchStageNull(t, p, cb2) ==
  IF p.action = OK THEN Caught(t, cb2, "handler", FALSE)
  ELSE IF p.action = NOT THEN Caught(t, cb2, "handler", TRUE)
  ELSE Caught(t, cb2, "not", p.hasNot)

\* The whole chain: handleSuccess has no .catch stage, handleFailure catches
\* with the handler itself, the handler-object form with the not handler.
CatchStage(t, p, cb2) ==
  IF p.action = OK THEN t
  ELSE IF p.action = NOT THEN Caught(t, cb2, "handler", TRUE)
  ELSE Caught(t, cb2, "not", p.hasNot)

\* ---------------------------------------------------- the batch processor
\* DataItem {id, value}: the ids and values the items are drawn from.
ItemIds == {"item-1", "item-4", "invalid-2"}

ItemValues == {-10, 50, 2000}

DataItems == [id : ItemIds, value : ItemValues]

\* item.id.includes('invalid')
IncludesInvalid(id) == id = "invalid-2"

\* ProcessingError {itemId, reason, retryable}
ProcessingError(itemId, reason, retryable) ==
  [itemId |-> itemId, reason |-> reason, retryable |-> retryable]

NoError == ProcessingError("", "", FALSE)

\* DataProcessor.processItem(item): Result.ok(true) or Result.not(error).
ProcessItem(item) ==
  IF IncludesInvalid(item.id)
    THEN [ok |-> FALSE,
          error |-> ProcessingError(item.id, "Invalid item format", FALSE)]
  ELSE IF item.value < 0
    THEN [ok |-> FALSE,
          error |-> ProcessingError(item.id, "Negative values not allowed", FALSE)]
  ELSE IF item.value > 1000
    THEN [ok |-> FALSE,
          error |-> ProcessingError(item.id, "Temporary processing error", TRUE)]
  ELSE [ok |-> TRUE, error |-> NoError]

\* ProcessingStats {processed, succeeded, failed}
ProcessingStats(processed, succeeded, failed) ==
  [processed |-> processed, succeeded |-> succeeded, failed |-> failed]

\* DataProcessor.processBatch(items): the errors of the items that fail, in
\* the order of the items; Result.ok(stats) when there is none, otherwise
\* Result.not(errors).
ProcessBatch(items) ==
  LET failing == SelectSeq(items, LAMBDA item : ~ProcessItem(item).ok)
      errors == [i \in 1..Len(failing) |-> ProcessItem(failing[i]).error]
      stats == ProcessingStats(Len(items), Len(items) - Len(errors), Len(errors))
  IN [ok |-> errors = <<>>, data |-> stats, error |-> errors]

\* The locals of processWithRetry and where it stands: not called, at the
\* test of the while loop, after the loop, or returned. batches keeps the
\* batches processed so far; ok and error are the Result returned.
Idle ==
  [pc |-> "idle", items |-> <<>>, maxRetries |-> 0, currentItems |-> <<>>,
   finalStats |-> ProcessingStats(0, 0, 0), attempts |-> 0, batches |-> <<>>,
   ok |-> FALSE, error |-> <<>>]

\* The test of the while loop.
LoopTest(p) == Len(p.currentItems) > 0 /\ p.attempts < p.maxRetries

\* One turn of the while loop, from the test that admits it to the next
\* test or to the break.
LoopBody(p) ==
  LET batchResult == ProcessBatch(p.currentItems)
      logged == [p EXCEPT !.attempts = @ + 1,
                          !.batches = Append(@, p.currentItems)]
  IN IF batchResult.ok
       THEN [logged EXCEPT
               !.finalStats.processed = @ + batchResult.data.processed,
               !.finalStats.succeeded = @ + batchResult.data.succeeded,
               !.pc = "after"]
       ELSE LET errors == batchResult.error
                nonRetryableErrors == SelectSeq(errors, LAMBDA e : ~e.retryable)
                retryable == SelectSeq(errors, LAMBDA e : e.retryable)
                retryableItemIds == {retryable[i].itemId : i \in DOMAIN retryable}
                kept == SelectSeq(p.currentItems,
                                  LAMBDA item : item.id \in retryableItemIds)
            IN [logged EXCEPT
                  !.finalStats.failed = @ + Len(nonRetryableErrors),
                  !.currentItems = kept,
                  !.pc = IF kept = <<>> THEN "after" ELSE "loop"]

\* What follows the loop: the items left are counted as failed, and the
\* Result returned is Result.ok(finalStats) or Result.not of their errors.
AfterLoop(p) ==
  LET failed == p.finalStats.failed + Len(p.currentItems)
  IN [p EXCEPT
        !.finalStats.failed = failed,
        !.ok = failed = 0,
        !.error = IF failed = 0 THEN <<>>
                  ELSE [i \in 1..Len(p.currentItems) |->
                          ProcessingError(p.currentItems[i].id,
                                          "Failed after max retry attempts", FALSE)],
        !.pc = "returned"]

\* ------------------------------------------------------------ the calls
\* What the handlers passed to Result.match do when called.
OkHandlers ==
  {[thrown |-> FALSE, val |-> "v1"], [thrown |-> FALSE, val |-> "undefined"],
   [thrown |-> TRUE, val |-> "v1"]}

NotHandlers ==
  {[thrown |-> FALSE, val |-> "v2"], [thrown |-> FALSE, val |-> "null"],
   [thrown |-> TRUE, val |-> "v2"]}

\* The values and the errors passed to Result.from.
FromValues == {"v1", "undefined", "fnVal", "fnThrow"}

FromErrors == {"v2", "undefined", "fnVal"}

NoInput == [thrown |-> FALSE, val |-> "undefined"]

Input(x) == [thrown |-> FALSE, val |-> x]

\* The heap stays within the bounds of the model.
Fits(h) ==
  /\ Len(h) + Len(promises) <= MaxObjects
  /\ \A i \in DOMAIN h : h[i].dataReads <= MaxReads /\ h[i].errorReads <= MaxReads

\* The observation of a call: op on the instance recv (0 for a static call)
\* with the inputs cb, cb2 and hasNot, and its outcome out; pref is the
\* promise it returned (0 when none). What a callback would have done is
\* part of the observation only when the call ran it, and an argument only
\* when the call looked at it.
Observe(op, recv, cb, cb2, hasNot, out, pref) ==
  [op |-> op, recv |-> recv, cb |-> cb, cb2 |-> cb2, hasNot |-> hasNot,
   thrown |-> out.thrown, val |-> out.val, ref |-> out.ref, pref |-> pref,
   log |-> out.log]

Finish(op, recv, cb, cb2, hasNot, out) ==
  /\ Fits(out.h)
  /\ heap' = out.h
  /\ last' = Observe(op, recv, cb, cb2, hasNot, out, 0)
  /\ UNCHANGED <<promises, processor>>

Init ==
  /\ heap = <<>>
  /\ promises = <<>>
  /\ last = Observe("none", 0, NoInput, NoInput, FALSE, Returned(<<>>, 0, <<>>), 0)
  /\ processor = Idle

CallOk ==
  \E x \in Values :
    Finish("Result.ok", 0, Input(x), NoInput, FALSE, StaticOk(heap, x, <<>>))

CallNot ==
  \E x \in Values :
    Finish("Result.not", 0, Input(x), NoInput, FALSE, StaticNot(heap, x, <<>>))

CallTryCatch ==
  \E cb \in Outcomes :
    Finish("Result.tryCatch", 0, cb, NoInput, FALSE, TryCatch(heap, cb))

CallFrom ==
  \E value \in FromValues, cond \in Conditions, error \in FromErrors :
    LET out == From(heap, value, cond, error)
        branched == ~(IsFunction(value) /\ Invoke(value).thrown)
    IN Finish("Result.from", 0, Input(value),
              IF branched /\ ~cond.holds THEN Input(error) ELSE NoInput,
              branched /\ cond.holds, out)

ReadData ==
  \E r \in DOMAIN heap :
    LET d == GetData(heap, r) IN
    Finish("data", r, NoInput, NoInput, FALSE,
           IF d.thrown THEN Threw(d.h, d.val, <<>>) ELSE Gave(d.h, d.val, <<>>))

ReadError ==
  \E r \in DOMAIN heap :
    LET e == GetError(heap, r) IN
    Finish("error", r, NoInput, NoInput, FALSE,
           IF e.thrown THEN Threw(e.h, e.val, <<>>) ELSE Gave(e.h, e.val, <<>>))

\* A returned boolean is observed as "true" or "false".
Bool(b) == IF b THEN "true" ELSE "false"

CallIsOk ==
  \E r \in DOMAIN heap :
    LET c == IsOk(heap, r) IN
    Finish("Result.isOk", r, NoInput, NoInput, FALSE,
           IF c.thrown THEN Threw(c.h, c.val, <<>>) ELSE Gave(c.h, Bool(c.is), <<>>))

CallNotOk ==
  \E r \in DOMAIN heap :
    LET c == NotOk(heap, r) IN
    Finish("Result.notOk", r, NoInput, NoInput, FALSE,
           IF c.thrown THEN Threw(c.h, c.val, <<>>) ELSE Gave(c.h, Bool(c.is), <<>>))

CallMethodOk ==
  \E r \in DOMAIN heap, cb \in Outcomes :
    LET out == MethodOk(heap, r, cb) IN
    Finish("ok", r, IF out.log = <<>> THEN NoInput ELSE cb, NoInput, FALSE, out)

CallMethodNot ==
  \E r \in DOMAIN heap, cb \in Outcomes :
    LET out == MethodNot(heap, r, cb) IN
    Finish("not", r, IF out.log = <<>> THEN NoInput ELSE cb, NoInput, FALSE, out)

CallMethodTo ==
  \E r \in DOMAIN heap, cb \in Outcomes :
    LET out == MethodTo(heap, r, cb) IN
    Finish("to", r, IF out.log = <<>> THEN NoInput ELSE cb, NoInput, FALSE, out)

CallMatchHandlers ==
  \E r \in DOMAIN heap, ok \in OkHandlers, notH \in NotHandlers, hasNot \in BOOLEAN :
    LET out == MatchHandlers(heap, r, ok, notH, hasNot)
        ran == {out.log[i].fn : i \in DOMAIN out.log}
    IN Finish("match", r, IF "ok" \in ran THEN ok ELSE NoInput,
              IF "not" \in ran THEN notH ELSE NoInput, hasNot, out)

\* Result.match(action, result, handler) on a Result instance; the action is
\* observed as the second input.
CallMatchTag ==
  \E r \in DOMAIN heap, action \in Tags :
    \E cb \in IF action = NOT THEN NotHandlers ELSE OkHandlers :
      LET out == MatchTag(heap, action, r, cb) IN
      Finish("match tag", r, IF out.log = <<>> THEN NoInput ELSE cb,
             Input(action), FALSE, out)

\* The values that are no Result passed to Result.isOk and Result.notOk.
NonResults == {"undefined", "null", "v1"}

\* Result.isOk(x) for a value x that is no Result instance.
CallIsOkOfValue ==
  \E x \in NonResults :
    Finish("Result.isOk", 0, Input(x), NoInput, FALSE,
           Gave(heap, Bool(GuardOfValue(x)), <<>>))

\* Result.notOk(x) for a value x that is no Result instance.
CallNotOkOfValue ==
  \E x \in NonResults :
    Finish("Result.notOk", 0, Input(x), NoInput, FALSE,
           Gave(heap, Bool(GuardOfValue(x)), <<>>))

\* r.value(mutator?); the flag of the observation tells whether a mutator
\* was given.
CallValue ==
  \E r \in DOMAIN heap, hasMutator \in BOOLEAN, m \in OkHandlers :
    LET out == MethodValue(heap, r, m, hasMutator) IN
    Finish("value", r, IF out.log = <<>> THEN NoInput ELSE m, NoInput,
           hasMutator, out)

\* r.defaultValue(fb); the fallback is observed when the call used it, and
\* the flag of the observation then tells whether it is a function.
CallDefaultValue ==
  \E r \in DOMAIN heap, fb \in Fallbacks :
    LET out == MethodDefaultValue(heap, r, fb)
        c == IsOk(heap, r)
        d == GetData(c.h, r)
        used == ~c.thrown /\ (c.is => ~d.thrown /\ d.val = "null")
    IN Finish("defaultValue", r,
              IF used THEN [thrown |-> fb.thrown, val |-> fb.val] ELSE NoInput,
              NoInput, used /\ fb.isFn, out)

CallOr ==
  \E r \in DOMAIN heap, cb \in NotHandlers :
    LET out == MethodOr(heap, r, cb) IN
    Finish("or", r, IF out.log = <<>> THEN NoInput ELSE cb, NoInput, FALSE, out)

CallThrowIfNotOk ==
  \E r \in DOMAIN heap :
    Finish("throwIfNotOk", r, NoInput, NoInput, FALSE, MethodThrowIfNotOk(heap, r))

\* The arrays of at most n items.
ItemArrays(n) == UNION {[1..k -> DataItems] : k \in 0..n}

\* processor.processWithRetry(items, maxRetries) up to the first test of
\* the loop.
CallProcessWithRetry ==
  /\ processor.pc = "idle"
  /\ \E items \in ItemArrays(MaxItems), maxRetries \in 0..MaxRetries :
       processor' = [Idle EXCEPT !.pc = "loop", !.items = items,
                                 !.maxRetries = maxRetries,
                                 !.currentItems = items]
  /\ UNCHANGED <<heap, promises, last>>

\* The loop test holds and the body runs: one batch is processed.
ProcessOneBatch ==
  /\ processor.pc = "loop"
  /\ LoopTest(processor)
  /\ processor' = LoopBody(processor)
  /\ UNCHANGED <<heap, promises, last>>

\* The loop has ended, by its test or by a break, and the call returns.
ProcessWithRetryReturns ==
  /\ \/ processor.pc = "after"
     \/ processor.pc = "loop" /\ ~LoopTest(processor)
  /\ processor' = AfterLoop(processor)
  /\ UNCHANGED <<heap, promises, last>>

\* Result.resolve(promise) up to its await: the async function returns its
\* own pending promise. log is what ran before the call. A promise that
\* settled before the call is one that settles right after it.
Resolve(op, log) ==
  /\ Len(heap) + Len(promises) < MaxObjects
  /\ promises' = Append(promises, NewPromise("resolve", op))
  /\ last' = Observe(op, 0, NoInput, NoInput, FALSE, Returned(heap, 0, log),
                     Len(promises) + 1)
  /\ UNCHANGED <<heap, processor>>

CallResolve == Resolve("Result.resolve", <<>>)

\* The caller's promise fulfils with x or rejects with x.
Settle ==
  \E q \in DOMAIN promises, state \in {"fulfilled", "rejected"}, x \in Values :
    /\ ~Settled(promises[q].awaited)
    /\ promises' = [promises EXCEPT ![q].awaited = [state |-> state, val |-> x]]
    /\ UNCHANGED <<heap, last, processor>>

\* Result.resolve after its await: the awaited promise has settled, the
\* Result is constructed and the returned promise fulfils with it.
ResolveSettles ==
  \E q \in DOMAIN promises :
    /\ promises[q].kind = "resolve"
    /\ ~Settled(promises[q])
    /\ Settled(promises[q].awaited)
    /\ LET awaited == promises[q].awaited
           out == IF awaited.state = "fulfilled"
                    THEN Construct(heap, awaited.val, "null", <<>>)
                    ELSE Construct(heap, "null", awaited.val, <<>>)
       IN /\ Fits(out.h)
          /\ heap' = out.h
          /\ promises' = [promises EXCEPT ![q].state = "fulfilled", ![q].ref = out.ref]
    /\ UNCHANGED <<last, processor>>

\* Result.tryCatchAsync(callback): Result.resolve(callback()). The callback
\* returns a promise or throws before returning any.
CallTryCatchAsync ==
  \/ Resolve("Result.tryCatchAsync", <<Ran("callback", "undefined")>>)
  \/ \E x \in Plain :
       /\ last' = Observe("Result.tryCatchAsync", 0, [thrown |-> TRUE, val |-> x],
                          NoInput, FALSE,
                          Threw(heap, x, <<Ran("callback", "undefined")>>), 0)
       /\ UNCHANGED <<heap, promises, processor>>

\* A call of Result.match that returns a promise p.
ReturnsMatch(op, action, hasNot) ==
  /\ Len(heap) + Len(promises) < MaxObjects
  /\ promises' = Append(promises, NewMatch(op, action, hasNot))
  /\ last' = Observe(op, 0, NoInput,
                     IF action = "none" THEN NoInput ELSE Input(action), hasNot,
                     Returned(heap, 0, <<>>), Len(promises) + 1)
  /\ UNCHANGED <<heap, processor>>

\* Result.match(promise, {ok, not?}): the chain is built and returned, no
\* handler runs yet.
CallMatchPending ==
  \E hasNot \in BOOLEAN : ReturnsMatch("match pending", "none", hasNot)

\* Result.match(action, promise, handler): the switch returns the chain of
\* handleSuccess or handleFailure, or throws for an unknown action.
CallMatchTagPending ==
  \E action \in Tags :
    IF action \in {OK, NOT} THEN ReturnsMatch("match tag pending", action, FALSE)
    ELSE /\ last' = Observe("match tag pending", 0, NoInput, Input(action), FALSE,
                            Threw(heap, InvalidMatchType(action), <<>>), 0)
         /\ UNCHANGED <<heap, promises, processor>>

\* The values a promise of a Result rejects with.
Rejections == {"v2"}

\* The promise passed to Result.match fulfils with a Result instance or
\* rejects.
SettleResult ==
  \E q \in DOMAIN promises :
    /\ promises[q].kind = "match"
    /\ ~Settled(promises[q].awaited)
    /\ \E aw \in {FulfilledWith(r) : r \in DOMAIN heap}
                 \cup {RejectedWith(x) : x \in Rejections} :
         promises' = [promises EXCEPT ![q].awaited = aw]
    /\ UNCHANGED <<heap, last, processor>>

\* The chain of a match promise runs once the awaited promise has settled:
\* the .then stage, then the .catch stage; the promise fulfils with what the
\* chain returns or rejects with what it throws.
MatchSettles ==
  \E q \in DOMAIN promises :
    /\ promises[q].kind = "match"
    /\ ~Settled(promises[q])
    /\ Settled(promises[q].awaited)
    /\ LET p == promises[q] IN
       \E cb \in IF p.action = NOT THEN NotHandlers ELSE OkHandlers,
          cb2 \in NotHandlers :
         LET t == ThenStage(heap, p, cb)
             out == CatchStage(t, p, cb2)
         IN /\ Fits(out.h)
            /\ heap' = out.h
            /\ promises' =
                 [promises EXCEPT
                    ![q].state = IF out.thrown THEN "rejected" ELSE "fulfilled",
                    ![q].val = out.val,
                    ![q].log = out.log,
                    ![q].cb = IF t.log = <<>> THEN NoInput ELSE cb,
                    ![q].cb2 = IF Len(out.log) = Len(t.log) THEN NoInput ELSE cb2]
    /\ UNCHANGED <<last, processor>>

Next ==
  \/ CallOk
  \/ CallNot
  \/ CallTryCatch
  \/ CallFrom
  \/ ReadData
  \/ ReadError
  \/ CallIsOk
  \/ CallNotOk
  \/ CallMethodOk
  \/ CallMethodNot
  \/ CallMethodTo
  \/ CallMatchHandlers
  \/ Settle
  \/ CallResolve
  \/ ResolveSettles
  \/ CallTryCatchAsync

Spec == Init /\ [][Next]_vars

\* The dispatcher: the factories and the reads that prepare a Result, and
\* Result.match in its two forms, on a Result and on a promise of one.
NextMatch ==
  \/ CallOk
  \/ CallNot
  \/ CallTryCatch
  \/ ReadData
  \/ ReadError
  \/ CallMatchHandlers
  \/ CallMatchTag
  \/ CallMatchPending
  \/ CallMatchTagPending
  \/ SettleResult
  \/ MatchSettles

SpecMatch == Init /\ [][NextMatch]_vars

\* The extraction of a value: the factories and the reads that prepare a
\* Result, the two guards, and value, defaultValue, or and throwIfNotOk.
NextAccess ==
  \/ CallOk
  \/ CallNot
  \/ CallTryCatch
  \/ ReadData
  \/ ReadError
  \/ CallIsOk
  \/ CallNotOk
  \/ CallIsOkOfValue
  \/ CallNotOkOfValue
  \/ CallValue
  \/ CallDefaultValue
  \/ CallOr
  \/ CallThrowIfNotOk

SpecAccess == Init /\ [][NextAccess]_vars

\* The transformations: the factories that prepare a Result, and every
\* method and match form that takes a Result and leaves it to the caller.
NextFrame ==
  \/ CallOk
  \/ CallNot
  \/ CallTryCatch
  \/ CallMethodOk
  \/ CallMethodNot
  \/ CallMethodTo
  \/ CallValue
  \/ CallDefaultValue
  \/ CallOr
  \/ CallThrowIfNotOk
  \/ CallMatchHandlers
  \/ CallMatchTag

SpecFrame == Init /\ [][NextFrame]_vars

\* The batch processor of the examples.
NextRetry ==
  \/ CallProcessWithRetry
  \/ ProcessOneBatch
  \/ ProcessWithRetryReturns

SpecRetry == Init /\ [][NextRetry]_vars

\* ------------------------------------------------------------ reading
\* What the caller finds when it classifies and reads the instance r now.
Success(r) == IsOk(heap, r).is

Failure(r) == NotOk(heap, r).is

\* r.data and r.error as outcomes [thrown, val].
DataOf(r) == LET d == GetData(heap, r) IN [thrown |-> d.thrown, val |-> d.val]

ErrorOf(r) == LET e == GetError(heap, r) IN [thrown |-> e.thrown, val |-> e.val]

Value(x) == [thrown |-> FALSE, val |-> x]

\* What the caller can find out about the instance r of the heap h: its
\* classification and what r.data and r.error give.
Reading(h, r) ==
  LET d == GetData(h, r)
      e == GetError(h, r)
  IN [isOk |-> IsOk(h, r).is, notOk |-> NotOk(h, r).is,
      data |-> [thrown |-> d.thrown, val |-> d.val],
      error |-> [thrown |-> e.thrown, val |-> e.val]]

\* The call observed last ran exactly the callback fn, once, with arg.
RanOnly(fn, arg) == last.log = <<Ran(fn, arg)>>

\* -------------------------------------------------------------- claims
\* C1: for every Result instance r exactly one of Result.isOk(r) and
\* Result.notOk(r) is true, never both and never neither.
C1_ExactlyOneOfIsOkNotOk ==
  \A r \in DOMAIN heap :
    LET a == IsOk(heap, r)
        b == NotOk(a.h, r)
    IN a.is # b.is

C3_OkShortCircuitsOnFailure ==
  (last.op = "ok" /\ Failure(last.recv)) =>
    /\ ~last.thrown
    /\ last.ref # 0
    /\ Failure(last.ref)
    /\ ErrorOf(last.ref) = ErrorOf(last.recv)
    /\ last.log = <<>>

C3_Witness ==
  /\ last.op = "ok"
  /\ Failure(last.recv)
  /\ ErrorOf(last.recv) = Value("v1")
  /\ last.ref = last.recv

\* C4: r.not(g) on a success r returns a Result with the state and the value
\* of r and does not run g.
C4_NotShortCircuitsOnSuccess ==
  (last.op = "not" /\ Success(last.recv)) =>
    /\ ~last.thrown
    /\ last.ref # 0
    /\ Success(last.ref)
    /\ DataOf(last.ref) = DataOf(last.recv)
    /\ last.log = <<>>

C4_Witness ==
  /\ last.op = "not"
  /\ Success(last.recv)
  /\ DataOf(last.recv) = Value("v1")
  /\ last.ref = last.recv

\* The call observed last is r.ok(cb) on a success r whose value reads as some
\* v, and cb ran and returned.
OkCallbackReturned ==
  /\ last.op = "ok"
  /\ Success(last.recv)
  /\ ~DataOf(last.recv).thrown
  /\ last.log # <<>>
  /\ ~last.cb.thrown

\* C5 as stated: when the ok callback of a success with value v returns
\* undefined or null, r.ok(cb) is a success whose value is still v; when it
\* returns any other value w, r.ok(cb) is a success whose value is w. (A
\* function w, which the constructor keeps as a deferred producer, is left
\* out of the statement.)
C5_OkKeepsValueOnUndefinedOrNull ==
  (OkCallbackReturned /\ ~IsFunction(last.cb.val)) =>
    /\ ~last.thrown
    /\ last.ref # 0
    /\ Success(last.ref)
    /\ DataOf(last.ref) =
         IF last.cb.val \in {"undefined", "null"} THEN DataOf(last.recv)
         ELSE Value(last.cb.val)

\* C5 amended: when the callback returns undefined the value is still v; when
\* it returns null the value is null; when it returns any other value w that
\* is not a function the value is w; a function w is kept as the deferred
\* producer of the value. In every case r.ok(cb) is a success.
C5_OkKeepsValueOnUndefinedOnly ==
  OkCallbackReturned =>
    /\ ~last.thrown
    /\ last.ref # 0
    /\ Success(last.ref)
    /\ IF last.cb.val = "undefined" THEN DataOf(last.ref) = DataOf(last.recv)
       ELSE IF IsFunction(last.cb.val)
         THEN /\ heap[last.ref].dataOrFn = last.cb.val
              /\ heap[last.ref].dataCalls = 0
       ELSE DataOf(last.ref) = Value(last.cb.val)

\* An ok callback returned null on a success of v1 and the value became null.
C5_Witness ==
  /\ OkCallbackReturned
  /\ last.cb.val = "null"
  /\ DataOf(last.recv) = Value("v1")
  /\ last.ref # 0
  /\ DataOf(last.ref) = Value("null")

\* C6: a value x thrown inside the callback of r.ok(f) on a success r, or of
\* r.not(g) on a failure r, does not leave the method: the method returns a
\* Result that is a failure and whose error is x. (A function x, which the
\* constructor keeps as a deferred producer, is left out of the statement.)
C6_ThrownInCallbackBecomesFailure ==
  (/\ last.op \in {"ok", "not"}
   /\ last.log # <<>>
   /\ last.cb.thrown
   /\ ~IsFunction(last.cb.val)) =>
    /\ ~last.thrown
    /\ last.ref # 0
    /\ Failure(last.ref)
    /\ ErrorOf(last.ref) = Value(last.cb.val)

\* C7: Result.tryCatch(f) runs f exactly once and does not throw; when f
\* returns v the Result is a success whose value is v (null for undefined),
\* and when f throws x the Result is a failure whose error is x. (A function
\* v or x, which the constructor keeps as a deferred producer, is left out of
\* the statement.)
C7_TryCatchCaptures ==
  (last.op = "Result.tryCatch" /\ ~IsFunction(last.cb.val)) =>
    /\ RanOnly("callback", "undefined")
    /\ ~last.thrown
    /\ last.ref # 0
    /\ IF last.cb.thrown
         THEN Failure(last.ref) /\ ErrorOf(last.ref) = Value(last.cb.val)
         ELSE Success(last.ref) /\ DataOf(last.ref) = Value(Fold(last.cb.val))

\* The promise q returned by Result.resolve has not settled before the
\* promise it awaits, and has not rejected.
SettlesAfterAwaited(q) ==
  /\ Settled(promises[q]) => Settled(promises[q].awaited)
  /\ promises[q].state # "rejected"

\* The promise q returned by Result.resolve, once fulfilled, carries a success
\* of x (null for undefined) when the awaited promise fulfilled with x and a
\* failure of e when it rejected with e. (A function x or e, which the
\* constructor keeps as a deferred producer, is left out of the statement.)
FulfilsWithOutcome(q) ==
  (promises[q].state = "fulfilled" /\ ~IsFunction(promises[q].awaited.val)) =>
    /\ promises[q].ref # 0
    /\ IF promises[q].awaited.state = "fulfilled"
         THEN /\ Success(promises[q].ref)
              /\ DataOf(promises[q].ref) = Value(Fold(promises[q].awaited.val))
         ELSE /\ Failure(promises[q].ref)
              /\ ErrorOf(promises[q].ref) = Value(promises[q].awaited.val)

\* C8: the promise Result.resolve(p) returns does not settle before p does
\* (and stays pending while p does), does not reject, and fulfils with a
\* success of x when p fulfilled with x, with a failure of e when p rejected
\* with e.
C8_ResolveWrapsSettlement ==
  \A q \in DOMAIN promises :
    promises[q].kind = "resolve" => SettlesAfterAwaited(q) /\ FulfilsWithOutcome(q)

\* C9: Result.tryCatchAsync(cb) does not throw to its caller and returns a
\* promise that does not reject: what cb throws and what the promise cb
\* returns rejects with become the error of a failure, what it fulfils with
\* the value of a success.
C9_TryCatchAsyncCaptures ==
  /\ last.op = "Result.tryCatchAsync" =>
       /\ ~last.thrown
       /\ last.pref # 0
       /\ RanOnly("callback", "undefined")
  /\ \A q \in DOMAIN promises :
       promises[q].via = "Result.tryCatchAsync" =>
         /\ promises[q].state # "rejected"
         /\ FulfilsWithOutcome(q)

\* C10: Result.match(r, {ok: h1, not: h2}) on a Result instance: on a success
\* with value v it calls h1(v) and nothing else and gives what h1 gives; on a
\* failure with error e it calls h2(e) and nothing else and gives what h2
\* gives; on a failure with no not handler it calls nothing and returns null.
C10_MatchHandlersDispatch ==
  last.op = "match" =>
    /\ (Success(last.recv) /\ ~DataOf(last.recv).thrown) =>
         /\ RanOnly("ok", DataOf(last.recv).val)
         /\ last.thrown = last.cb.thrown
         /\ last.val = last.cb.val
    /\ (Failure(last.recv) /\ last.hasNot) =>
         /\ RanOnly("not", ErrorOf(last.recv).val)
         /\ last.thrown = last.cb2.thrown
         /\ last.val = last.cb2.val
    /\ (Failure(last.recv) /\ ~last.hasNot) =>
         /\ last.log = <<>>
         /\ ~last.thrown
         /\ last.val = "null"

\* match ran the not handler with the error of a failure and returned what
\* the handler returned.
C10_Witness ==
  /\ last.op = "match"
  /\ Failure(last.recv)
  /\ last.hasNot
  /\ RanOnly("not", "v1")
  /\ ~last.thrown
  /\ last.val = "v2"

\* The match promise p was returned by the handler-object form.
HandlerForm(p) == p.kind = "match" /\ p.action = "none"

\* The match promise p fulfilled with x after running exactly the handler fn
\* with arg.
FulfilledBy(p, fn, arg, x) ==
  /\ p.log = <<Ran(fn, arg)>>
  /\ p.state = "fulfilled"
  /\ p.val = x

\* The match promise p fulfilled with null and ran no handler.
FulfilledWithNull(p) ==
  /\ p.log = <<>>
  /\ p.state = "fulfilled"
  /\ p.val = "null"

\* C11: Result.match(p, {ok, not?}) on a promise p of a Result: no handler
\* runs and the returned promise stays pending while p is pending; once p
\* fulfilled with a success of v the returned promise resolves to ok(v), with
\* a failure of e to not(e) when a not handler is given and to null when none
\* is; once p rejected with x it resolves to not(x), or to null when no not
\* handler is given. (Handlers that throw are left out of the statement.)
C11_MatchPendingDispatches ==
  \A q \in DOMAIN promises :
    LET p == promises[q]
        aw == p.awaited
    IN HandlerForm(p) =>
         /\ ~Settled(aw) => (~Settled(p) /\ p.log = <<>>)
         /\ (Settled(p) /\ ~p.cb.thrown /\ ~p.cb2.thrown) =>
              IF aw.state = "rejected"
                THEN IF p.hasNot THEN FulfilledBy(p, "not", aw.val, p.cb2.val)
                     ELSE FulfilledWithNull(p)
              ELSE /\ (Success(aw.ref) /\ ~DataOf(aw.ref).thrown) =>
                        FulfilledBy(p, "ok", DataOf(aw.ref).val, p.cb.val)
                   /\ (Failure(aw.ref) /\ p.hasNot) =>
                        FulfilledBy(p, "not", ErrorOf(aw.ref).val, p.cb2.val)
                   /\ (Failure(aw.ref) /\ ~p.hasNot) => FulfilledWithNull(p)

\* The call observed last is Result.match(action, r, handler) on a Result
\* instance with one of the two markers.
MatchTagCall(action) ==
  /\ last.op = "match tag"
  /\ last.cb2.val = action

\* The call observed last ran the handler with arg and nothing else, and gave
\* what the handler gave.
GaveWhatHandlerGave(arg) ==
  /\ RanOnly("handler", arg)
  /\ last.thrown = last.cb.thrown
  /\ last.val = last.cb.val

\* The call observed last ran nothing and returned null.
GaveNull ==
  /\ last.log = <<>>
  /\ ~last.thrown
  /\ last.val = "null"

\* The match promise p of the action-tag form ran the handler with arg and
\* nothing else and fulfilled with what the handler returned.
ResolvedToHandler(p, arg) ==
  /\ p.log # <<>>
  /\ p.log[1] = Ran("handler", arg)
  /\ ~p.cb.thrown => FulfilledBy(p, "handler", arg, p.cb.val)

\* C12: Result.match(tag, result, handler) with tag Result.OK or Result.NOT:
\* when the state of the Result matches the tag the handler is called with the
\* value (for OK) or the error (for NOT) and what it returns is returned;
\* when it does not match the handler is not called and the call returns
\* null, or, for a promise of a Result, a promise that resolves to null.
C12_MatchTagDispatches ==
  /\ MatchTagCall(OK) =>
       /\ (Success(last.recv) /\ ~DataOf(last.recv).thrown) =>
            GaveWhatHandlerGave(DataOf(last.recv).val)
       /\ Failure(last.recv) => GaveNull
  /\ MatchTagCall(NOT) =>
       /\ Failure(last.recv) => GaveWhatHandlerGave(ErrorOf(last.recv).val)
       /\ Success(last.recv) => GaveNull
  /\ \A q \in DOMAIN promises :
       LET p == promises[q]
           r == p.awaited.ref
       IN (p.kind = "match" /\ Settled(p) /\ p.awaited.state = "fulfilled") =>
            /\ p.action = OK =>
                 /\ (Success(r) /\ ~DataOf(r).thrown) =>
                      ResolvedToHandler(p, DataOf(r).val)
                 /\ Failure(r) => FulfilledWithNull(p)
            /\ p.action = NOT =>
                 /\ Failure(r) => ResolvedToHandler(p, ErrorOf(r).val)
                 /\ Success(r) => FulfilledWithNull(p)

\* A promise fulfilled with a failure of v1, matched with Result.NOT, resolved
\* to what the handler returned for v1.
C12_Witness ==
  \E q \in DOMAIN promises :
    /\ promises[q].kind = "match"
    /\ promises[q].action = NOT
    /\ promises[q].awaited.state = "fulfilled"
    /\ Failure(promises[q].awaited.ref)
    /\ FulfilledBy(promises[q], "handler", "v1", "v2")

\* C13: Result.match(tag, result, handler) with a tag that is neither
\* Result.OK nor Result.NOT throws at once an error that names the tag, for a
\* Result as for a promise of one; the handler is not called and no promise is
\* returned.
C13_InvalidTagThrows ==
  /\ (last.op \in {"match tag", "match tag pending"} /\ last.cb2.val \notin {OK, NOT}) =>
       /\ last.thrown
       /\ last.val = InvalidMatchType(last.cb2.val)
       /\ \A t \in Tags \ {last.cb2.val} : last.val # InvalidMatchType(t)
       /\ last.log = <<>>
       /\ last.ref = 0
       /\ last.pref = 0
  /\ \A q \in DOMAIN promises :
       promises[q].kind = "match" => promises[q].action \in {"none", OK, NOT}

\* Result.match("v1", r, handler) on a Result instance threw.
C13_Witness ==
  /\ last.op = "match tag"
  /\ last.recv # 0
  /\ last.cb2.val = "v1"
  /\ last.thrown

\* C14: Result.isOk(x) and Result.notOk(x) return false for every x that is
\* no Result instance, null and undefined included, and throw for no input,
\* Result instance or not.
C14_GuardsFalseAndNeverThrow ==
  last.op \in {"Result.isOk", "Result.notOk"} =>
    /\ ~last.thrown
    /\ last.recv = 0 => last.val = "false"

\* The receiver of the call observed last is a success whose value reads as
\* some v.
OnSuccess == Success(last.recv) /\ ~DataOf(last.recv).thrown

\* C15: r.value(m) on a success r is m(v) for the value v of r; r.value() on a
\* success r is v; on a failure r both are null and m is not called.
C15_ValueExtracts ==
  last.op = "value" =>
    /\ (OnSuccess /\ last.hasNot) =>
         /\ RanOnly("mutator", DataOf(last.recv).val)
         /\ last.thrown = last.cb.thrown
         /\ last.val = last.cb.val
    /\ (OnSuccess /\ ~last.hasNot) =>
         /\ last.log = <<>>
         /\ ~last.thrown
         /\ last.val = DataOf(last.recv).val
    /\ Failure(last.recv) => GaveNull

\* value was called with a mutator on a failure and returned null.
C15_Witness ==
  /\ last.op = "value"
  /\ Failure(last.recv)
  /\ last.hasNot
  /\ last.val = "null"
  /\ last.log = <<>>

\* C16: r.defaultValue(fb) on a success r whose value v is not null is v and a
\* function fb is not called; on a success whose value reads as null and on a
\* failure it is fb when fb is a plain value and fb(v) when fb is a function,
\* which for a failure is fb(null).
C16_DefaultValueFallsBack ==
  last.op = "defaultValue" =>
    /\ (OnSuccess /\ DataOf(last.recv).val # "null") =>
         /\ last.log = <<>>
         /\ ~last.thrown
         /\ last.val = DataOf(last.recv).val
    /\ ((OnSuccess /\ DataOf(last.recv).val = "null") \/ Failure(last.recv)) =>
         /\ last.thrown = last.cb.thrown
         /\ last.val = last.cb.val
         /\ IF last.hasNot THEN RanOnly("value", "null")
            ELSE last.log = <<>> /\ ~last.thrown

\* defaultValue called the fallback function with null on a success whose
\* value reads as null and returned what it returned.
C16_Witness ==
  /\ last.op = "defaultValue"
  /\ OnSuccess
  /\ heap[last.recv].dataOrFn = "fnNull"
  /\ last.hasNot
  /\ RanOnly("value", "null")
  /\ last.val = "v2"

\* C17: r.or(cb) on a success r is the value of r and cb is not called; on a
\* failure r with error e it is cb(e).
C17_OrFallsBackOnFailure ==
  last.op = "or" =>
    /\ OnSuccess =>
         /\ last.log = <<>>
         /\ ~last.thrown
         /\ last.val = DataOf(last.recv).val
    /\ Failure(last.recv) =>
         /\ RanOnly("callback", ErrorOf(last.recv).val)
         /\ last.thrown = last.cb.thrown
         /\ last.val = last.cb.val

\* or called the callback with the error v1 of a failure and returned what it
\* returned.
C17_Witness ==
  /\ last.op = "or"
  /\ Failure(last.recv)
  /\ RanOnly("callback", "v1")
  /\ ~last.thrown
  /\ last.val = "v2"

\* C18: r.to(m) on a failure r returns r itself and does not call m; on a
\* success r with value v, when m returns w, it returns a new Result that is a
\* success whose value is w (null for undefined), whatever w is. (A function
\* w, which the constructor keeps as a deferred producer, is left out of the
\* statement.)
C18_ToWrapsMutatorResult ==
  last.op = "to" =>
    /\ Failure(last.recv) =>
         /\ last.log = <<>>
         /\ ~last.thrown
         /\ last.ref = last.recv
    /\ (OnSuccess /\ ~last.cb.thrown /\ ~IsFunction(last.cb.val)) =>
         /\ RanOnly("callback", DataOf(last.recv).val)
         /\ ~last.thrown
         /\ last.ref \notin {0, last.recv}
         /\ Success(last.ref)
         /\ DataOf(last.ref) = Value(Fold(last.cb.val))

\* C19: r.to(m) on a success r whose m throws x throws x to its caller and
\* returns no Result.
C19_ToDoesNotCapture ==
  (last.op = "to" /\ OnSuccess /\ last.cb.thrown) =>
    /\ RanOnly("callback", DataOf(last.recv).val)
    /\ last.thrown
    /\ last.val = last.cb.val
    /\ last.ref = 0

\* to ran the mutator on a success of v1 and threw what the mutator threw.
C19_Witness ==
  /\ last.op = "to"
  /\ OnSuccess
  /\ RanOnly("callback", "v1")
  /\ last.cb.thrown
  /\ last.thrown
  /\ last.val = "v2"

C21_FailureIsAbsorbing ==
  (last.op \in {"ok", "not", "to"} /\ Failure(last.recv))
    => /\ ~last.thrown
       /\ last.ref # 0
       /\ Failure(last.ref)

\* C22: r.throwIfNotOk() returns normally and without effect when r is a
\* success (no Result is made and every instance reads as before), and
\* throws exactly the error r holds when r is a failure.
C22_ThrowIfNotOk ==
  [][last'.op = "throwIfNotOk" =>
       LET r == last'.recv IN
       /\ IsOk(heap, r).is =>
            /\ ~last'.thrown
            /\ last'.val = "undefined"
            /\ last'.ref = 0
            /\ Len(heap') = Len(heap)
            /\ \A q \in DOMAIN heap : Reading(heap', q) = Reading(heap, q)
       /\ NotOk(heap, r).is =>
            /\ last'.thrown
            /\ last'.val = GetError(heap, r).val]_vars

\* throwIfNotOk on a failure holding v1 threw v1.
C22_Witness ==
  /\ last.op = "throwIfNotOk"
  /\ Failure(last.recv)
  /\ ErrorOf(last.recv) = Value("v1")
  /\ last.thrown
  /\ last.val = "v1"

\* What Result.from makes of an argument that may be a producer.
Resolved(x) == IF IsFunction(x) THEN Invoke(x) ELSE Value(x)

\* The place of a function of Result.from in the order the claim gives.
FromRank(fn) == CASE fn = "value" -> 1 [] fn = "condition" -> 2 [] fn = "error" -> 3

\* C23: Result.from(value, condition, error) resolves the value first, then
\* evaluates the condition (a predicate is called with the resolved value),
\* then branches: a success wrapping the resolved value when the condition
\* is true, otherwise a failure wrapping the resolved error; the error
\* producer is never invoked when the condition is true.
C23_FromOrderAndOutcome ==
  (last.op = "Result.from" /\ ~Resolved(last.cb.val).thrown) =>
    LET v == Resolved(last.cb.val).val
        e == Resolved(last.cb2.val)
        log == last.log
    IN /\ \A i, j \in DOMAIN log : i < j => FromRank(log[i].fn) < FromRank(log[j].fn)
       /\ IsFunction(last.cb.val) => log # <<>> /\ log[1] = Ran("value", "undefined")
       /\ \A i \in DOMAIN log : log[i].fn = "condition" => log[i].arg = v
       /\ last.hasNot =>
            /\ \A i \in DOMAIN log : log[i].fn # "error"
            /\ ~last.thrown
            /\ last.ref # 0
            /\ Success(last.ref)
            /\ DataOf(last.ref) = Value(Fold(v))
       /\ (~last.hasNot /\ ~e.thrown) =>
            /\ IsFunction(last.cb2.val) => log[Len(log)] = Ran("error", "undefined")
            /\ ~last.thrown
            /\ last.ref # 0
            /\ Failure(last.ref)
            /\ ErrorOf(last.ref) = Value(Fold(e.val))

\* C25: classifying a Result does not force evaluation: Result.isOk(r) and
\* Result.notOk(r) decide from whether the error slot of r was configured
\* at all and invoke no deferred producer, so the invocation counts of
\* every instance are the same after the call as before it.
C25_ClassifyingDoesNotEvaluate ==
  [][(last'.op \in {"Result.isOk", "Result.notOk"} /\ last'.recv # 0) =>
       LET r == last'.recv IN
       /\ ~last'.thrown
       /\ last'.val = Bool((heap[r].errorOrFn = "null") <=> (last'.op = "Result.isOk"))
       /\ \A q \in DOMAIN heap :
            /\ heap'[q].errorCalls = heap[q].errorCalls
            /\ heap'[q].dataCalls = heap[q].dataCalls]_vars

\* C26: slot exclusivity: every Result made by a factory or by ok, not or
\* to has exactly one of its two slots non-empty, never both empty and
\* never both set, whatever the payload, thrown or rejected value was.
C26_ExactlyOneSlotSet ==
  \A r \in DOMAIN heap : (heap[r].dataOrFn = "null") # (heap[r].errorOrFn = "null")

\* What a slot holding slot gives when read: the memo when there is one,
\* else what the stored value is or what the stored producer does.
Produced(slot, evaluated, memo) == IF evaluated THEN Value(memo) ELSE Resolved(slot)

\* C27: the data accessor returns null and invokes nothing when the success
\* slot is empty; otherwise it returns the stored or produced value, with
\* null and undefined folded into null; the error accessor does the same on
\* the failure slot; neither accessor invokes the producer of the other slot.
C27_Accessors ==
  [][last'.op \in {"data", "error"} =>
       LET r == last'.recv
           o == heap[r]
           isData == last'.op = "data"
           slot == IF isData THEN o.dataOrFn ELSE o.errorOrFn
           p == IF isData THEN Produced(o.dataOrFn, o.dataEvaluated, o.dataValue)
                ELSE Produced(o.errorOrFn, o.errorEvaluated, o.errorValue)
       IN /\ slot = "null" =>
               /\ ~last'.thrown
               /\ last'.val = "null"
               /\ \A q \in DOMAIN heap :
                    /\ heap'[q].dataCalls = heap[q].dataCalls
                    /\ heap'[q].errorCalls = heap[q].errorCalls
          /\ (slot # "null" /\ ~p.thrown) =>
               /\ ~last'.thrown
               /\ last'.val = Fold(p.val)
          /\ isData => \A q \in DOMAIN heap : heap'[q].errorCalls = heap[q].errorCalls
          /\ ~isData => \A q \in DOMAIN heap : heap'[q].dataCalls = heap[q].dataCalls]_vars

\* The data accessor gave null for a success slot holding undefined.
C27_Witness ==
  /\ last.op = "data"
  /\ heap[last.recv].dataOrFn = "undefined"
  /\ ~last.thrown
  /\ last.val = "null"

\* C29: every call of Result.match, in either form and on a Result as on a
\* promise of one, invokes at most one handler once: the not handler is not
\* invoked after the ok handler, and no handler is invoked a second time,
\* also when the handler invoked throws.
C29_AtMostOneHandlerRun ==
  /\ last.op \in {"match", "match tag"} => Len(last.log) <= 1
  /\ \A q \in DOMAIN promises : promises[q].kind = "match" => Len(promises[q].log) <= 1

\* The match promise p was made by the action-tag form with the tag action,
\* the promise it awaits rejected, and its chain has run.
TagFormAfterRejection(p, action) ==
  /\ p.kind = "match"
  /\ p.via = "match tag pending"
  /\ p.action = action
  /\ p.awaited.state = "rejected"
  /\ Settled(p)

\* C30: Result.match(tag, p, handler) on a promise p that rejects with x:
\* under Result.NOT the handler is invoked with x and the promise returned
\* fulfils with what the handler returns; under Result.OK the handler is
\* never invoked and the promise returned rejects with x.
C30_TagFormOnRejection ==
  \A q \in DOMAIN promises :
    LET p == promises[q] IN
    /\ TagFormAfterRejection(p, NOT) =>
         /\ p.log = <<Ran("handler", p.awaited.val)>>
         /\ ~p.cb2.thrown => p.state = "fulfilled" /\ p.val = p.cb2.val
    /\ TagFormAfterRejection(p, OK) =>
         /\ p.log = <<>>
         /\ p.state = "rejected"
         /\ p.val = p.awaited.val

\* A promise made under Result.OK rejected with the v2 its promise rejected
\* with, and no handler ran.
C30_Witness ==
  \E q \in DOMAIN promises :
    /\ TagFormAfterRejection(promises[q], OK)
    /\ promises[q].awaited.val = "v2"
    /\ promises[q].state = "rejected"
    /\ promises[q].val = "v2"
    /\ promises[q].log = <<>>

\* The methods and match forms that take a Result as their receiver.
Transformations ==
  {"ok", "not", "to", "value", "or", "defaultValue", "throwIfNotOk", "match",
   "match tag"}

\* C24: transformations never mutate the receiver: a call of ok, not, to,
\* value, or, defaultValue, throwIfNotOk or match on a Result leaves the
\* classification of every instance that existed before the call, and what
\* its data and error give, as they were.
C24_ReceiverNotMutated ==
  [][last'.op \in Transformations =>
       \A q \in DOMAIN heap : Reading(heap', q) = Reading(heap, q)]_vars

\* to on a success holding v1 made a new Result of another value, and the
\* receiver still reads v1.
C24_Witness ==
  /\ last.op = "to"
  /\ last.ref \notin {0, last.recv}
  /\ Success(last.recv)
  /\ DataOf(last.recv) = Value("v1")
  /\ DataOf(last.ref) = Value("v2")

\* The error processItem gives for the item is retryable, or is not.
Retryable(item) == ~ProcessItem(item).ok /\ ProcessItem(item).error.retryable

NonRetryable(item) == ~ProcessItem(item).ok /\ ~ProcessItem(item).error.retryable

\* C28: processWithRetry partitions the errors of each failed batch by
\* their retryable flag: exactly the items whose error is retryable form
\* the next batch, every non-retryable error is added to the failed count
\* and its item is never processed again; an item with value > 1000 (and an
\* id that is not marked invalid) is classified retryable and an item with
\* value < 0 non-retryable.
C28_RetryPartition ==
  [][processor'.attempts = processor.attempts + 1 =>
       LET batch == processor.currentItems
           before == processor.batches
       IN /\ ~ProcessBatch(batch).ok =>
               /\ processor'.currentItems = SelectSeq(batch, Retryable)
               /\ processor'.finalStats.failed =
                    processor.finalStats.failed + Len(SelectSeq(batch, NonRetryable))
          /\ \A b \in DOMAIN before : \A j \in DOMAIN before[b] :
               NonRetryable(before[b][j]) =>
                 \A i \in DOMAIN batch : batch[i] # before[b][j]
          /\ \A i \in DOMAIN batch :
               /\ (batch[i].value > 1000 /\ ~IncludesInvalid(batch[i].id))
                    => Retryable(batch[i])
               /\ batch[i].value < 0 => NonRetryable(batch[i])]_vars

TypeOK == Len(heap) + Len(promises) <= MaxObjects

====
